---- MODULE Spec2Model ----
(***************************************************************************)
(* Model of examples/secrets_client.py: SecretsClient (a TTL cache in      *)
(* front of get_secret_value, get_both_versions, invalidate_cache) and     *)
(* DatabaseConnectionWithRotation (connect, _try_connect,                  *)
(* execute_with_retry).  Python strings that the code inspects (cache      *)
(* keys, error messages) are sequences of one-character strings, so that   *)
(* f-string concatenation, startswith, lower and "in" are computed.        *)
(***************************************************************************)
EXTENDS Integers, Sequences, FiniteSets, TLC

VARIABLES
    env,                  \* the run's universe: the identifiers the caller uses, the store's answers
    cache,                \* SecretsClient.cache : cache_key -> {value, version_id, timestamp}
    cache_ttl,            \* SecretsClient.cache_ttl
    now,                  \* the value time.time() returns
    top,                  \* the public method the caller is running, "none" before the first
    gs,                   \* get_secret activation of each thread
    iv,                   \* invalidate_cache activation of each thread
    gb,                   \* get_both_versions activation
    cn,                   \* connect activation
    ex,                   \* execute_with_retry activation
    current_credentials   \* DatabaseConnectionWithRotation.current_credentials

vars == <<env, cache, cache_ttl, now, top, gs, iv, gb, cn, ex, current_credentials>>

(***************************************************************************)
(* Bounds of the model.                                                    *)
(***************************************************************************)
MaxTime == 1
MaxTtl == 2
MaxRetries == 1

Main == "main"
Worker == "worker"
Threads == {Main, Worker}

(***************************************************************************)
(* Strings.                                                                *)
(***************************************************************************)
Db == <<"d", "b">>
Db2 == <<"d", "b", "2">>
Ids == {Db}
\* the default of invalidate_cache's secret_id (None), falsy like ""
Nothing == << >>

AWSCURRENT == <<"A", "W", "S", "C", "U", "R", "R", "E", "N", "T">>
AWSPENDING == <<"A", "W", "S", "P", "E", "N", "D", "I", "N", "G">>
Stages == {AWSCURRENT, AWSPENDING}

UpperCase == <<"A", "B", "C", "D", "E", "F", "G", "H", "I", "J", "K", "L", "M",
               "N", "O", "P", "Q", "R", "S", "T", "U", "V", "W", "X", "Y", "Z">>
LowerCase == <<"a", "b", "c", "d", "e", "f", "g", "h", "i", "j", "k", "l", "m",
               "n", "o", "p", "q", "r", "s", "t", "u", "v", "w", "x", "y", "z">>

\* str.lower, one character
LowerChar(c) ==
    IF \E i \in 1..26 : UpperCase[i] = c
    THEN LowerCase[CHOOSE i \in 1..26 : UpperCase[i] = c]
    ELSE c

\* str.lower
Lower(s) == [i \in 1..Len(s) |-> LowerChar(s[i])]

\* sub in s
Contains(s, sub) ==
    \E i \in 0..(Len(s) - Len(sub)) : SubSeq(s, i + 1, i + Len(sub)) = sub

\* k.startswith(p)
StartsWith(k, p) == Len(p) <= Len(k) /\ SubSeq(k, 1, Len(p)) = p

\* cache_key = f"{secret_id}:{version_stage}"
CacheKey(secret_id, version_stage) == secret_id \o <<":">> \o version_stage

(***************************************************************************)
(* Python values a secret parses to: type and items (key/value pairs of a  *)
(* dict, elements of a list).                                              *)
(***************************************************************************)
PyNone == [type |-> "NoneType", items |-> {}]
Unset == [type |-> "unset", items |-> {}]

\* bool(v) for the values above
Truthy(v) == v.type \in {"dict", "list"} /\ v.items # {}

\* json.loads on the secret strings the store returns; ok = FALSE is JSONDecodeError
json_loads(s) ==
    CASE s = "{\"username\": \"app\"}" ->
           [ok |-> TRUE, value |-> [type |-> "dict", items |-> {<<"username", "app">>}]]
      [] s = "{}" -> [ok |-> TRUE, value |-> [type |-> "dict", items |-> {}]]
      [] s = "[\"app\"]" -> [ok |-> TRUE, value |-> [type |-> "list", items |-> {"app"}]]
      [] s = "null" -> [ok |-> TRUE, value |-> PyNone]
      [] OTHER -> [ok |-> FALSE, value |-> Unset]

\* base64.b64encode(b).decode()
b64encode(b) ==
    CASE b = "key" -> "a2V5"
      [] OTHER -> "AA=="

(***************************************************************************)
(* The remote store: what get_secret_value can answer.                     *)
(***************************************************************************)
Responses ==
    { [kind |-> "SecretString", data |-> "{\"username\": \"app\"}", VersionId |-> "v1"],
      [kind |-> "SecretString", data |-> "{}", VersionId |-> "v2"],
      [kind |-> "SecretString", data |-> "[\"app\"]", VersionId |-> "v3"],
      [kind |-> "SecretString", data |-> "null", VersionId |-> "v4"],
      [kind |-> "SecretString", data |-> "not json", VersionId |-> "v5"],
      [kind |-> "SecretBinary", data |-> "key", VersionId |-> "v6"] }

MsgDeleted == <<"d", "e", "l", "e", "t", "e", "d">>
MsgRotation == <<"R", "o", "t", "a", "t", "i", "o", "n">>
MsgPending == <<"p", "e", "n", "d", "i", "n", "g">>

\* e.response['Error'] of the ClientErrors the store raises
ClientErrors ==
    { [Code |-> "ResourceNotFoundException", Message |-> AWSPENDING],
      [Code |-> "InvalidRequestException", Message |-> MsgDeleted],
      [Code |-> "InvalidRequestException", Message |-> MsgRotation],
      [Code |-> "InvalidRequestException", Message |-> MsgPending],
      [Code |-> "InvalidRequestException", Message |-> AWSPENDING],
      [Code |-> "AccessDeniedException", Message |-> MsgPending],
      [Code |-> "DecryptionFailure", Message |-> MsgDeleted],
      [Code |-> "ThrottlingException", Message |-> MsgPending] }

(***************************************************************************)
(* Exceptions in flight.                                                   *)
(***************************************************************************)
NoExc == [type |-> "none", Code |-> "", Message |-> << >>]
Exc(type, message) == [type |-> type, Code |-> "", Message |-> message]
ClientError(err) == [type |-> "ClientError", Code |-> err.Code, Message |-> err.Message]

(***************************************************************************)
(* Activation records.  pc names the source line the activation is at;     *)
(* "ret" and "raise" are its two ways of ending.  The fields calls, pre    *)
(* and tcheck record history: the get_secret_value calls made so far, the  *)
(* cache on entry and the clocks read at lines 66 and 88; e is the         *)
(* ClientError caught at line 94; forced is the value the caller's         *)
(* previous call returned when that was a get_secret of the same key with  *)
(* use_cache=False, Unset otherwise.  The last three fields follow the     *)
(* record the call fetched: live says that it is the entry the cache holds *)
(* under the call's key, began names the threads whose invalidate_cache of *)
(* the call's secret_id started after the fetch and is still running, done *)
(* says that such an invalidate_cache has returned.                        *)
(***************************************************************************)
NoEntry == [value |-> Unset, version_id |-> "", timestamp |-> 0]

GsIdle ==
    [pc |-> "idle", secret_id |-> Nothing, version_stage |-> Nothing, use_cache |-> FALSE,
     cached |-> NoEntry, response |-> NoEntry, value |-> Unset, e |-> NoExc,
     exc |-> NoExc, calls |-> 0, pre |-> << >>, tcheck |-> -1, tstore |-> -1,
     forced |-> Unset, live |-> FALSE, began |-> {}, done |-> FALSE]

\* entry of get_secret(secret_id, version_stage, use_cache), at the cache check
GsEnter(secret_id, version_stage, use_cache) ==
    [GsIdle EXCEPT !.pc = "l64", !.secret_id = secret_id,
                   !.version_stage = version_stage, !.use_cache = use_cache,
                   !.pre = cache]

IvIdle == [pc |-> "idle", secret_id |-> Nothing, keys_to_remove |-> {}, pre |-> << >>]

\* entry of invalidate_cache(secret_id); pre records the cache on entry
IvEnter(secret_id) == [IvIdle EXCEPT !.pc = "l155", !.secret_id = secret_id, !.pre = cache]

GbIdle ==
    [pc |-> "idle", secret_id |-> Nothing,
     result |-> [current |-> PyNone, pending |-> PyNone, is_rotating |-> FALSE],
     exc |-> NoExc, first |-> NoExc, probe |-> NoExc, probed |-> FALSE, remote |-> << >>]

CnIdle == [pc |-> "idle", ret |-> FALSE, exc |-> NoExc, tried |-> << >>]

ExIdle ==
    [pc |-> "idle", max_retries |-> 0, attempt |-> 0, e |-> NoExc, exc |-> NoExc,
     attempts |-> 0, raised |-> << >>, invalidations |-> 0, retries |-> 0, log |-> << >>,
     warm |-> FALSE]

Ended(f) == f.pc \in {"ret", "raise"}

(***************************************************************************)
(* SecretsClient.get_secret                                                *)
(***************************************************************************)
\* an entry one second short of its ttl is already treated as expired
IsFresh_Early(timestamp, t, ttl) == t - timestamp < ttl - 1

\* an entry whose age equals its ttl is still served
IsFresh_Inclusive(timestamp, t, ttl) == t - timestamp <= ttl

\* line 66: time.time() - cached['timestamp'] < self.cache_ttl
IsFresh(timestamp, t, ttl) == t - timestamp < ttl

\* the message is searched without lower-casing it
MapError_CaseSensitive(err, secret_id) ==
    CASE err.Code = "ResourceNotFoundException" -> Exc("SecretNotFoundError", secret_id)
      [] err.Code = "InvalidRequestException" ->
           IF Contains(err.Message, MsgPending)
           THEN Exc("SecretRotationInProgressError", secret_id)
           ELSE ClientError(err)
      [] err.Code = "AccessDeniedException" -> Exc("SecretAccessDeniedError", secret_id)
      [] err.Code = "DecryptionFailure" -> Exc("SecretDecryptionError", secret_id)
      [] OTHER -> ClientError(err)

\* lines 94-118: the exception get_secret ends with for ClientError err
MapError(err, secret_id) ==
    CASE err.Code = "ResourceNotFoundException" -> Exc("SecretNotFoundError", secret_id)
      [] err.Code = "InvalidRequestException" ->
           IF Contains(Lower(err.Message), MsgPending)
           THEN Exc("SecretRotationInProgressError", secret_id)
           ELSE ClientError(err)
      [] err.Code = "AccessDeniedException" -> Exc("SecretAccessDeniedError", secret_id)
      [] err.Code = "DecryptionFailure" -> Exc("SecretDecryptionError", secret_id)
      [] OTHER -> ClientError(err)

\* lines 76-82: secret_value of a response
ParseResponse(r) ==
    IF r.kind = "SecretString"
    THEN json_loads(r.data)
    ELSE [ok |-> TRUE,
          value |-> [type |-> "dict", items |-> {<<"binary", b64encode(r.data)>>}]]

\* lines 85-89: the cache after caching secret_value of response r at time t
CachePut(c, key, value, version_id, t) ==
    [k \in DOMAIN c \cup {key} |->
        IF k = key
        THEN [value |-> value, version_id |-> version_id, timestamp |-> t]
        ELSE c[k]]

\* the error handler drops the entry it could not refresh
CacheOnError_Evict(c, key) == [k \in DOMAIN c \ {key} |-> c[k]]

\* the cache after a failed get_secret_value (lines 94-118 leave it alone)
CacheOnError(c, key) == c

\* f holds a fetched record: not yet stored (line 85), or stored and still cached
Holding(f) == f.pc = "l85" \/ (f.pc = "ret" /\ f.live)

\* thread t has stored its record under key: it is the live one, no other is
Stored(G, t, key) ==
    [u \in Threads |->
        IF u = t THEN [G[u] EXCEPT !.live = TRUE]
        ELSE IF CacheKey(G[u].secret_id, G[u].version_stage) = key
             THEN [G[u] EXCEPT !.live = FALSE]
             ELSE G[u]]

\* the entries under keys have left the cache
Dropped(G, keys) ==
    [u \in Threads |->
        IF CacheKey(G[u].secret_id, G[u].version_stage) \in keys
        THEN [G[u] EXCEPT !.live = FALSE]
        ELSE G[u]]

\* thread t calls invalidate_cache(secret_id)
Begun(G, t, secret_id) ==
    [u \in Threads |->
        IF Holding(G[u]) /\ G[u].secret_id = secret_id
        THEN [G[u] EXCEPT !.began = @ \cup {t}]
        ELSE G[u]]

\* the invalidate_cache of thread t has returned
Returned(G, t) ==
    [u \in Threads |->
        IF t \in G[u].began
        THEN [G[u] EXCEPT !.began = @ \ {t}, !.done = TRUE]
        ELSE G[u]]

\* the invalidate_cache of thread t has raised
Raised(G, t) == [u \in Threads |-> [G[u] EXCEPT !.began = @ \ {t}]]

\* use_cache is ignored: a cached entry is always looked at
UseCached_Always(use_cache, key, c) == key \in DOMAIN c

\* line 64: use_cache and cache_key in self.cache
UseCached(use_cache, key, c) == use_cache /\ key \in DOMAIN c

\* line 64: if use_cache and cache_key in self.cache
GsCheck(t) ==
    /\ gs[t].pc = "l64"
    /\ LET f == gs[t]
           key == CacheKey(f.secret_id, f.version_stage)
       IN gs' = [gs EXCEPT ![t].pc =
                    IF UseCached(f.use_cache, key, cache) THEN "l65" ELSE "l71"]
    /\ UNCHANGED <<env, cache, cache_ttl, now, top, iv, gb, cn, ex, current_credentials>>

\* line 65: cached = self.cache[cache_key]
GsRead(t) ==
    /\ gs[t].pc = "l65"
    /\ LET f == gs[t]
           key == CacheKey(f.secret_id, f.version_stage)
       IN IF key \in DOMAIN cache
          THEN gs' = [gs EXCEPT ![t].pc = "l66", ![t].cached = cache[key]]
          ELSE gs' = [gs EXCEPT ![t].pc = "raise", ![t].exc = Exc("KeyError", key)]
    /\ UNCHANGED <<env, cache, cache_ttl, now, top, iv, gb, cn, ex, current_credentials>>

\* lines 66-68: return the cached value if it is fresh
GsCompare(t) ==
    /\ gs[t].pc = "l66"
    /\ LET f == gs[t]
       IN IF IsFresh(f.cached.timestamp, now, cache_ttl)
          THEN gs' = [gs EXCEPT ![t].pc = "ret", ![t].value = f.cached.value,
                                ![t].tcheck = now]
          ELSE gs' = [gs EXCEPT ![t].pc = "l71", ![t].tcheck = now]
    /\ UNCHANGED <<env, cache, cache_ttl, now, top, iv, gb, cn, ex, current_credentials>>

\* lines 71-82: get_secret_value answers with a response, which is parsed
GsFetchOk(t) ==
    /\ gs[t].pc = "l71"
    /\ \E r \in env.responses :
          LET p == ParseResponse(r)
          IN IF p.ok
             THEN gs' = [gs EXCEPT ![t].pc = "l85", ![t].calls = @ + 1,
                                   ![t].response =
                                       [value |-> p.value, version_id |-> r.VersionId,
                                        timestamp |-> 0]]
             ELSE gs' = [gs EXCEPT ![t].pc = "raise", ![t].calls = @ + 1,
                                   ![t].exc = Exc("JSONDecodeError", << >>)]
    /\ UNCHANGED <<env, cache, cache_ttl, now, top, iv, gb, cn, ex, current_credentials>>

\* lines 71-74, 94-118: get_secret_value raises ClientError
GsFetchError(t) ==
    /\ gs[t].pc = "l71"
    /\ \E err \in env.errors :
          LET f == gs[t]
              key == CacheKey(f.secret_id, f.version_stage)
          IN /\ gs' = [gs EXCEPT ![t].pc = "raise", ![t].calls = @ + 1,
                                 ![t].e = ClientError(err),
                                 ![t].exc = MapError(err, f.secret_id)]
             /\ cache' = CacheOnError(cache, key)
    /\ UNCHANGED <<env, cache_ttl, now, top, iv, gb, cn, ex, current_credentials>>

\* lines 85-92: cache the value and return it
GsStore(t) ==
    /\ gs[t].pc = "l85"
    /\ LET f == gs[t]
           key == CacheKey(f.secret_id, f.version_stage)
       IN /\ cache' = CachePut(cache, key, f.response.value, f.response.version_id, now)
          /\ gs' = Stored([gs EXCEPT ![t].pc = "ret", ![t].value = f.response.value,
                                       ![t].tstore = now], t, key)
    /\ UNCHANGED <<env, cache_ttl, now, top, iv, gb, cn, ex, current_credentials>>

(***************************************************************************)
(* SecretsClient.invalidate_cache                                          *)
(***************************************************************************)
\* only the AWSCURRENT key of secret_id is selected
KeysToRemove_CurrentOnly(c, secret_id) == DOMAIN c \cap {CacheKey(secret_id, AWSCURRENT)}

\* a key is selected when it equals secret_id, which no key does
KeysToRemove_Exact(c, secret_id) == {k \in DOMAIN c : k = secret_id}

\* line 156: [k for k in self.cache if k.startswith(secret_id)]
KeysToRemove(c, secret_id) == {k \in DOMAIN c : StartsWith(k, secret_id)}

\* line 158: del self.cache[key]
CacheDel(c, key) == [k \in DOMAIN c \ {key} |-> c[k]]

\* line 161: self.cache.clear()
CacheClear(c) == [k \in {} |-> NoEntry]

\* lines 155-156: a truthy secret_id selects the keys to remove
IvCollect(t) ==
    /\ iv[t].pc = "l155"
    /\ iv[t].secret_id # Nothing
    /\ LET keys == KeysToRemove(cache, iv[t].secret_id)
       IN /\ iv' = [iv EXCEPT ![t].keys_to_remove = keys,
                              ![t].pc = IF keys = {} THEN "ret" ELSE "l158"]
          /\ gs' = IF keys = {} THEN Returned(gs, t) ELSE gs
    /\ UNCHANGED <<env, cache, cache_ttl, now, top, gb, cn, ex, current_credentials>>

\* lines 157-159: delete the next key; return after the last
IvDelete(t) ==
    /\ iv[t].pc = "l158"
    /\ \E key \in iv[t].keys_to_remove :
          LET rest == iv[t].keys_to_remove \ {key}
          IN IF key \in DOMAIN cache
             THEN /\ cache' = CacheDel(cache, key)
                  /\ iv' = [iv EXCEPT ![t].keys_to_remove = rest,
                                      ![t].pc = IF rest = {} THEN "ret" ELSE "l158"]
                  /\ gs' = IF rest = {}
                           THEN Returned(Dropped(gs, {key}), t)
                           ELSE Dropped(gs, {key})
             ELSE /\ cache' = cache
                  /\ iv' = [iv EXCEPT ![t].pc = "raise"]
                  /\ gs' = Raised(gs, t)
    /\ UNCHANGED <<env, cache_ttl, now, top, gb, cn, ex, current_credentials>>

\* lines 160-162: no secret_id (None or ""), clear everything
IvClear(t) ==
    /\ iv[t].pc = "l155"
    /\ iv[t].secret_id = Nothing
    /\ cache' = CacheClear(cache)
    /\ iv' = [iv EXCEPT ![t].pc = "ret"]
    /\ gs' = Dropped(gs, DOMAIN cache)
    /\ UNCHANGED <<env, cache_ttl, now, top, gb, cn, ex, current_credentials>>

(***************************************************************************)
(* SecretsClient.get_both_versions.  first and probe record how the        *)
(* AWSCURRENT and the AWSPENDING fetch ended (NoExc: it returned), probed  *)
(* that the AWSPENDING fetch was made, remote the get_secret_value calls   *)
(* each fetch made.                                                         *)
(***************************************************************************)
\* the probe also tolerates a denied access
Swallowed_AccessDenied(exc) ==
    exc.type \in {"ClientError", "SecretNotFoundError", "SecretAccessDeniedError"}

\* the probe tolerates every exception (except Exception)
Swallowed_Any(exc) == TRUE

\* line 143: except (ClientError, SecretNotFoundError)
Swallowed(exc) == exc.type \in {"ClientError", "SecretNotFoundError"}

\* lines 133-136: entry, up to the call get_secret(secret_id, "AWSCURRENT")
GbEnter(secret_id) == [GbIdle EXCEPT !.pc = "l136", !.secret_id = secret_id]

\* the try of line 139 also encloses line 136: a swallowed failure leaves current None
AfterCurrent_InsideTry(b, f) ==
    IF f.pc = "ret"
    THEN [b EXCEPT !.pc = "l140", !.result.current = f.value]
    ELSE IF f.exc.type \in {"ClientError", "SecretNotFoundError"}
         THEN [b EXCEPT !.pc = "l140"]
         ELSE [b EXCEPT !.pc = "raise", !.exc = f.exc]

\* line 136: get_both_versions b after the AWSCURRENT get_secret f has ended;
\* the call is outside the try, so whatever it raises leaves get_both_versions
AfterCurrent(b, f) ==
    IF f.pc = "ret"
    THEN [b EXCEPT !.pc = "l140", !.result.current = f.value]
    ELSE [b EXCEPT !.pc = "raise", !.exc = f.exc]

\* line 136: the AWSCURRENT fetch has ended; lines 139-140 start the AWSPENDING one
GbCurrent ==
    /\ gb.pc = "l136"
    /\ Ended(gs[Main])
    /\ gb' = [AfterCurrent(gb, gs[Main]) EXCEPT !.first = gs[Main].exc,
                                                !.remote = Append(@, gs[Main].calls)]
    /\ IF gb'.pc = "l140"
       THEN gs' = [gs EXCEPT ![Main] = GsEnter(gb.secret_id, AWSPENDING, TRUE)]
       ELSE gs' = [gs EXCEPT ![Main] = GsIdle]
    /\ UNCHANGED <<env, cache, cache_ttl, now, top, iv, cn, ex, current_credentials>>

\* lines 140-146: the AWSPENDING fetch has ended
GbPending ==
    /\ gb.pc = "l140"
    /\ Ended(gs[Main])
    /\ IF gs[Main].pc = "ret"
       THEN gb' = [gb EXCEPT !.pc = "ret", !.result.pending = gs[Main].value,
                             !.result.is_rotating = TRUE, !.probed = TRUE,
                             !.remote = Append(@, gs[Main].calls)]
       ELSE IF Swallowed(gs[Main].exc)
            THEN gb' = [gb EXCEPT !.pc = "ret", !.probe = gs[Main].exc, !.probed = TRUE,
                                  !.remote = Append(@, gs[Main].calls)]
            ELSE gb' = [gb EXCEPT !.pc = "raise", !.exc = gs[Main].exc,
                                  !.probe = gs[Main].exc, !.probed = TRUE,
                                  !.remote = Append(@, gs[Main].calls)]
    /\ gs' = [gs EXCEPT ![Main] = GsIdle]
    /\ UNCHANGED <<env, cache, cache_ttl, now, top, iv, cn, ex, current_credentials>>

(***************************************************************************)
(* DatabaseConnectionWithRotation.  tried records the _try_connect calls   *)
(* of a connect(): version label and result.                               *)
(***************************************************************************)
\* DatabaseConnectionWithRotation.secret_id
SecretId == Db

\* lines 215-235: credentials.get raises AttributeError unless credentials is a dict
TryConnect(credentials) == credentials.type = "dict"

\* the fallback is taken without asking whether a rotation is in flight
ShouldTryPending_Unguarded(versions) == TRUE

\* line 205: if versions['is_rotating'] and versions['pending']
ShouldTryPending(versions) == versions.is_rotating /\ Truthy(versions.pending)

\* the return of line 202 is missing: the fallback follows a successful attempt too
AfterTryCurrent_NoReturn(ok) == "l205"

\* lines 201-202: where connect() goes after the CURRENT attempt
AfterTryCurrent(ok) == IF ok THEN "ret" ELSE "l205"

\* line 198: entry, up to the call get_both_versions(self.secret_id)
CnEnter == [CnIdle EXCEPT !.pc = "l198"]

\* line 198: get_both_versions has ended
CnSnapshot ==
    /\ cn.pc = "l198"
    /\ Ended(gb)
    /\ IF gb.pc = "ret"
       THEN cn' = [cn EXCEPT !.pc = "l201"]
       ELSE cn' = [cn EXCEPT !.pc = "raise", !.exc = gb.exc]
    /\ UNCHANGED <<env, cache, cache_ttl, now, top, gs, iv, gb, ex, current_credentials>>

\* lines 201-202: try the current credentials
CnTryCurrent ==
    /\ cn.pc = "l201"
    /\ LET ok == TryConnect(gb.result.current)
       IN /\ cn' = [cn EXCEPT !.pc = AfterTryCurrent(ok), !.ret = ok,
                              !.tried = Append(@, <<"CURRENT", ok>>)]
          /\ current_credentials' = IF ok THEN gb.result.current ELSE current_credentials
    /\ UNCHANGED <<env, cache, cache_ttl, now, top, gs, iv, gb, ex>>

\* lines 205-211: try the pending credentials if there are any
CnTryPending ==
    /\ cn.pc = "l205"
    /\ IF ShouldTryPending(gb.result)
       THEN LET ok == TryConnect(gb.result.pending)
            IN /\ cn' = [cn EXCEPT !.pc = "ret", !.ret = ok,
                                   !.tried = Append(@, <<"PENDING", ok>>)]
               /\ current_credentials' =
                      IF ok THEN gb.result.pending ELSE current_credentials
       ELSE /\ cn' = [cn EXCEPT !.pc = "ret", !.ret = FALSE]
            /\ current_credentials' = current_credentials
    /\ UNCHANGED <<env, cache, cache_ttl, now, top, gs, iv, gb, ex>>

(***************************************************************************)
(* execute_with_retry.  The simulated query stands for an execution that   *)
(* returns or raises; e is the exception the handler at line 247 caught.   *)
(* attempts, invalidations and retries count the attempts started, the     *)
(* invalidate_cache calls made and the reconnections that led to another   *)
(* attempt; raised lists what the attempts raised, log the events in       *)
(* order: an attempt, an invalidate_cache returned, a connect() returned   *)
(* or raised; warm says that the cache held an entry when the handler last *)
(* called invalidate_cache.                                                *)
(***************************************************************************)
MsgPassword == <<"P", "a", "s", "s", "w", "o", "r", "d">>
MsgAuthentication ==
    <<"a", "u", "t", "h", "e", "n", "t", "i", "c", "a", "t", "i", "o", "n">>
MsgTimeout == <<"t", "i", "m", "e", "o", "u", "t">>
MsgMaxRetries == <<"M", "a", "x", " ", "r", "e", "t", "r", "i", "e", "s">>

\* what executing the query can raise
QueryErrors ==
    { Exc("Exception", MsgPassword), Exc("Exception", MsgAuthentication),
      Exc("Exception", MsgTimeout) }

\* every exception is taken for an authentication failure
IsAuthError_Any(e) == TRUE

\* the message is searched without lower-casing it
IsAuthError_CaseSensitive(e) ==
    \/ Contains(e.Message, MsgAuthentication)
    \/ Contains(e.Message, Lower(MsgPassword))

\* line 248: "authentication" in str(e).lower() or "password" in str(e).lower()
IsAuthError(e) ==
    \/ Contains(Lower(e.Message), MsgAuthentication)
    \/ Contains(Lower(e.Message), Lower(MsgPassword))

\* the last retry of the budget is never taken
MayRetry_Early(attempt, max_retries) == attempt < max_retries - 1

\* line 252: if attempt < max_retries
MayRetry(attempt, max_retries) == attempt < max_retries

\* lines 255, 257: what execute_with_retry raises when it gives up after e
GiveUp(e) == e

\* lines 241-245: the next attempt runs and returns
ExAttemptOk ==
    /\ ex.pc = "l241"
    /\ ex.attempt <= ex.max_retries
    /\ ex' = [ex EXCEPT !.pc = "ret", !.attempts = @ + 1, !.log = Append(@, "attempt")]
    /\ UNCHANGED <<env, cache, cache_ttl, now, top, gs, iv, gb, cn, current_credentials>>

\* lines 241-247: the next attempt runs and raises
ExAttemptRaise ==
    /\ ex.pc = "l241"
    /\ ex.attempt <= ex.max_retries
    /\ \E e \in QueryErrors :
          ex' = [ex EXCEPT !.pc = "l248", !.attempts = @ + 1, !.e = e,
                           !.raised = Append(@, e), !.log = Append(@, "attempt")]
    /\ UNCHANGED <<env, cache, cache_ttl, now, top, gs, iv, gb, cn, current_credentials>>

\* line 257: range(max_retries + 1) is exhausted
ExExhausted ==
    /\ ex.pc = "l241"
    /\ ex.attempt > ex.max_retries
    /\ ex' = [ex EXCEPT !.pc = "raise", !.exc = Exc("Exception", MsgMaxRetries)]
    /\ UNCHANGED <<env, cache, cache_ttl, now, top, gs, iv, gb, cn, current_credentials>>

\* lines 248-250, 255: an authentication failure invalidates the cache, others are raised
ExHandle ==
    /\ ex.pc = "l248"
    /\ IF IsAuthError(ex.e)
       THEN /\ ex' = [ex EXCEPT !.pc = "l250", !.warm = (DOMAIN cache # {})]
            /\ iv' = [iv EXCEPT ![Main] = IvEnter(SecretId)]
            /\ gs' = Begun(gs, Main, SecretId)
       ELSE /\ ex' = [ex EXCEPT !.pc = "raise", !.exc = ex.e]
            /\ iv' = iv
            /\ gs' = gs
    /\ UNCHANGED <<env, cache, cache_ttl, now, top, gb, cn, current_credentials>>

\* lines 250-255: invalidate_cache has ended; reconnect if attempts remain
ExInvalidated ==
    /\ ex.pc = "l250"
    /\ Ended(iv[Main])
    /\ iv' = [iv EXCEPT ![Main] = IvIdle]
    /\ IF iv[Main].pc = "raise"
       THEN /\ ex' = [ex EXCEPT !.pc = "raise", !.exc = Exc("KeyError", SecretId)]
            /\ UNCHANGED <<gs, gb, cn>>
       ELSE IF MayRetry(ex.attempt, ex.max_retries)
            THEN /\ ex' = [ex EXCEPT !.pc = "l253", !.invalidations = @ + 1,
                                     !.log = Append(@, "invalidated")]
                 /\ cn' = CnEnter
                 /\ gb' = GbEnter(SecretId)
                 /\ gs' = [gs EXCEPT ![Main] = GsEnter(SecretId, AWSCURRENT, TRUE)]
            ELSE /\ ex' = [ex EXCEPT !.pc = "raise", !.invalidations = @ + 1,
                                     !.exc = GiveUp(ex.e),
                                     !.log = Append(@, "invalidated")]
                 /\ UNCHANGED <<gs, gb, cn>>
    /\ UNCHANGED <<env, cache, cache_ttl, now, top, current_credentials>>

\* lines 253-254: connect has ended; continue with the next attempt
ExConnected ==
    /\ ex.pc = "l253"
    /\ Ended(cn)
    /\ IF cn.pc = "ret"
       THEN ex' = [ex EXCEPT !.pc = "l241", !.attempt = @ + 1, !.retries = @ + 1,
                             !.log = Append(@, "connected")]
       ELSE ex' = [ex EXCEPT !.pc = "raise", !.exc = cn.exc,
                             !.log = Append(@, "connect raised")]
    /\ cn' = CnIdle
    /\ gb' = GbIdle
    /\ UNCHANGED <<env, cache, cache_ttl, now, top, gs, iv, current_credentials>>

(***************************************************************************)
(* The clock and the caller.                                               *)
(***************************************************************************)
Tick ==
    /\ now < MaxTime
    /\ now' = now + 1
    /\ UNCHANGED <<env, cache, cache_ttl, top, gs, iv, gb, cn, ex, current_credentials>>

\* the caller's last call has ended (or none was made)
TopEnded ==
    CASE top = "none" -> TRUE
      [] top = "get_secret" -> Ended(gs[Main])
      [] top = "invalidate_cache" -> Ended(iv[Main])
      [] top = "get_both_versions" -> Ended(gb)
      [] top = "connect" -> Ended(cn)
      [] top = "execute_with_retry" -> Ended(ex)

CallGetSecret ==
    /\ TopEnded
    /\ top' = "get_secret"
    /\ \E secret_id \in env.ids, version_stage \in Stages, use_cache \in BOOLEAN :
          gs' = [t \in Threads |->
                    IF t = Main
                    THEN [GsEnter(secret_id, version_stage, use_cache) EXCEPT
                             !.forced = IF /\ top = "get_secret"
                                           /\ gs[Main].pc = "ret"
                                           /\ ~gs[Main].use_cache
                                           /\ gs[Main].secret_id = secret_id
                                           /\ gs[Main].version_stage = version_stage
                                        THEN gs[Main].value
                                        ELSE Unset]
                    ELSE GsIdle]
    /\ iv' = [t \in Threads |-> IvIdle]
    /\ gb' = GbIdle /\ cn' = CnIdle /\ ex' = ExIdle
    /\ UNCHANGED <<env, cache, cache_ttl, now, current_credentials>>

CallInvalidateCache ==
    /\ TopEnded
    /\ top' = "invalidate_cache"
    /\ \E secret_id \in env.ids \cup {Nothing} :
          iv' = [t \in Threads |-> IF t = Main
                                   THEN IvEnter(secret_id)
                                   ELSE IvIdle]
    /\ gs' = [t \in Threads |-> GsIdle]
    /\ gb' = GbIdle /\ cn' = CnIdle /\ ex' = ExIdle
    /\ UNCHANGED <<env, cache, cache_ttl, now, current_credentials>>

CallGetBothVersions ==
    /\ TopEnded
    /\ top' = "get_both_versions"
    /\ \E secret_id \in env.ids :
          /\ gb' = GbEnter(secret_id)
          /\ gs' = [t \in Threads |-> IF t = Main
                                      THEN GsEnter(secret_id, AWSCURRENT, TRUE)
                                      ELSE GsIdle]
    /\ iv' = [t \in Threads |-> IvIdle]
    /\ cn' = CnIdle /\ ex' = ExIdle
    /\ UNCHANGED <<env, cache, cache_ttl, now, current_credentials>>

CallConnect ==
    /\ TopEnded
    /\ top' = "connect"
    /\ cn' = CnEnter
    /\ gb' = GbEnter(SecretId)
    /\ gs' = [t \in Threads |-> IF t = Main
                                 THEN GsEnter(SecretId, AWSCURRENT, TRUE)
                                 ELSE GsIdle]
    /\ iv' = [t \in Threads |-> IvIdle]
    /\ ex' = ExIdle
    /\ UNCHANGED <<env, cache, cache_ttl, now, current_credentials>>

CallExecuteWithRetry ==
    /\ TopEnded
    /\ top' = "execute_with_retry"
    /\ \E max_retries \in (-1)..MaxRetries :
          ex' = [ExIdle EXCEPT !.pc = "l241", !.max_retries = max_retries]
    /\ gs' = [t \in Threads |-> GsIdle]
    /\ iv' = [t \in Threads |-> IvIdle]
    /\ gb' = GbIdle /\ cn' = CnIdle
    /\ UNCHANGED <<env, cache, cache_ttl, now, current_credentials>>

Init ==
    /\ env = [ids |-> Ids, responses |-> Responses, errors |-> ClientErrors]
    /\ cache = [k \in {} |-> NoEntry]
    /\ cache_ttl \in 0..MaxTtl
    /\ now = 0
    /\ top = "none"
    /\ gs = [t \in Threads |-> GsIdle]
    /\ iv = [t \in Threads |-> IvIdle]
    /\ gb = GbIdle
    /\ cn = CnIdle
    /\ ex = ExIdle
    /\ current_credentials = PyNone

\* the callers of SecretsClient
Next ==
    \/ Tick
    \/ CallGetSecret
    \/ CallInvalidateCache
    \/ CallGetBothVersions
    \/ GsCheck(Main)
    \/ GsRead(Main)
    \/ GsCompare(Main)
    \/ GsFetchOk(Main)
    \/ GsFetchError(Main)
    \/ GsStore(Main)
    \/ IvCollect(Main)
    \/ IvDelete(Main)
    \/ IvClear(Main)
    \/ GbCurrent
    \/ GbPending

Spec == Init /\ [][Next]_vars

\* the callers of DatabaseConnectionWithRotation
NextDb ==
    \/ Tick
    \/ CallInvalidateCache
    \/ CallConnect
    \/ CallExecuteWithRetry
    \/ GsCheck(Main)
    \/ GsRead(Main)
    \/ GsCompare(Main)
    \/ GsFetchOk(Main)
    \/ GsFetchError(Main)
    \/ GsStore(Main)
    \/ IvCollect(Main)
    \/ IvDelete(Main)
    \/ IvClear(Main)
    \/ GbCurrent
    \/ GbPending
    \/ CnSnapshot
    \/ CnTryCurrent
    \/ CnTryPending
    \/ ExAttemptOk
    \/ ExAttemptRaise
    \/ ExExhausted
    \/ ExHandle
    \/ ExInvalidated
    \/ ExConnected

SpecDb == Init /\ [][NextDb]_vars

(***************************************************************************)
(* A client used for two secrets, one identifier a prefix of the other,    *)
(* against a store with fewer answers.                                     *)
(***************************************************************************)
FewResponses == {r \in Responses : r.VersionId = "v1"}
FewErrors == {err \in ClientErrors : err.Code = "ThrottlingException"}

InitPrefix ==
    /\ env = [ids |-> {Db, Db2}, responses |-> FewResponses, errors |-> FewErrors]
    /\ cache = [k \in {} |-> NoEntry]
    /\ cache_ttl \in 0..MaxTtl
    /\ now = 0
    /\ top = "none"
    /\ gs = [t \in Threads |-> GsIdle]
    /\ iv = [t \in Threads |-> IvIdle]
    /\ gb = GbIdle
    /\ cn = CnIdle
    /\ ex = ExIdle
    /\ current_credentials = PyNone

NextPrefix ==
    \/ Tick
    \/ CallGetSecret
    \/ CallInvalidateCache
    \/ GsCheck(Main)
    \/ GsRead(Main)
    \/ GsCompare(Main)
    \/ GsFetchOk(Main)
    \/ GsFetchError(Main)
    \/ GsStore(Main)
    \/ IvCollect(Main)
    \/ IvDelete(Main)
    \/ IvClear(Main)

SpecPrefix == InitPrefix /\ [][NextPrefix]_vars

(***************************************************************************)
(* Several threads share one SecretsClient and call get_secret and         *)
(* invalidate_cache on it; the interpreter may switch threads between any  *)
(* two steps.  The client has no lock.                                     *)
(***************************************************************************)
\* thread t is between two calls
Resting(t) == gs[t].pc \in {"idle", "ret", "raise"} /\ iv[t].pc \in {"idle", "ret", "raise"}

ThreadGetSecret(t) ==
    /\ Resting(t)
    /\ \E secret_id \in env.ids, version_stage \in Stages, use_cache \in BOOLEAN :
          gs' = [gs EXCEPT ![t] = GsEnter(secret_id, version_stage, use_cache)]
    /\ iv' = [iv EXCEPT ![t] = IvIdle]
    /\ UNCHANGED <<env, cache, cache_ttl, now, top, gb, cn, ex, current_credentials>>

ThreadInvalidateCache(t) ==
    /\ Resting(t)
    /\ \E secret_id \in env.ids \cup {Nothing} :
          /\ iv' = [iv EXCEPT ![t] = IvEnter(secret_id)]
          /\ gs' = Begun([gs EXCEPT ![t] = GsIdle], t, secret_id)
    /\ UNCHANGED <<env, cache, cache_ttl, now, top, gb, cn, ex, current_credentials>>

InitThreads ==
    /\ env = [ids |-> Ids, responses |-> FewResponses, errors |-> FewErrors]
    /\ cache = [k \in {} |-> NoEntry]
    /\ cache_ttl \in 0..MaxTtl
    /\ now = 0
    /\ top = "none"
    /\ gs = [t \in Threads |-> GsIdle]
    /\ iv = [t \in Threads |-> IvIdle]
    /\ gb = GbIdle
    /\ cn = CnIdle
    /\ ex = ExIdle
    /\ current_credentials = PyNone

NextThreads ==
    \/ Tick
    \/ \E t \in Threads : ThreadGetSecret(t)
    \/ \E t \in Threads : ThreadInvalidateCache(t)
    \/ \E t \in Threads : GsCheck(t)
    \/ \E t \in Threads : GsRead(t)
    \/ \E t \in Threads : GsCompare(t)
    \/ \E t \in Threads : GsFetchOk(t)
    \/ \E t \in Threads : GsFetchError(t)
    \/ \E t \in Threads : GsStore(t)
    \/ \E t \in Threads : IvCollect(t)
    \/ \E t \in Threads : IvDelete(t)
    \/ \E t \in Threads : IvClear(t)

SpecThreads == InitThreads /\ [][NextThreads]_vars

(***************************************************************************)
(* Properties of SecretsClient.get_secret, under Spec.                     *)
(***************************************************************************)
\* the cache key of thread Main's get_secret activation
MainKey == CacheKey(gs[Main].secret_id, gs[Main].version_stage)

\* the entry for that key on entry to get_secret, where there was one
MainPre == gs[Main].pre[MainKey]

\* C1: a get_secret(id, stage, use_cache=true) that reads the clock less than
\* cache_ttl after the timestamp of the entry cached for (id, stage) makes no
\* get_secret_value call and returns the value the cache holds for that key.
C1_FreshHitIsServedFromCache ==
    LET f == gs[Main]
    IN (/\ f.use_cache
        /\ MainKey \in DOMAIN f.pre
        /\ f.tcheck >= 0
        /\ f.tcheck - MainPre.timestamp < cache_ttl)
       => /\ f.pc = "ret"
          /\ f.calls = 0
          /\ f.value = MainPre.value
          /\ MainKey \in DOMAIN cache
          /\ cache[MainKey] = MainPre

\* a hit some time after the fetch: the clock has advanced past the timestamp
C1_Witness ==
    LET f == gs[Main]
    IN /\ f.pc = "ret"
       /\ f.use_cache
       /\ MainKey \in DOMAIN f.pre
       /\ f.tcheck > MainPre.timestamp
       /\ f.tcheck - MainPre.timestamp < cache_ttl
       /\ f.calls = 0

\* C2: a get_secret that finds the cached entry aged cache_ttl or more never
\* returns it: it calls get_secret_value, and when that succeeds the entry is
\* replaced by the new value, the response's version id and the clock read when
\* storing.
C2_StaleEntryIsRefetched ==
    LET f == gs[Main]
    IN (/\ f.use_cache
        /\ MainKey \in DOMAIN f.pre
        /\ f.tcheck >= 0
        /\ f.tcheck - MainPre.timestamp >= cache_ttl)
       => /\ f.pc \in {"l71", "l85", "ret", "raise"}
          /\ f.pc \in {"l85", "ret", "raise"} => f.calls = 1
          /\ f.pc = "ret" =>
                /\ f.value = f.response.value
                /\ f.tstore >= f.tcheck
                /\ MainKey \in DOMAIN cache
                /\ cache[MainKey] = [value |-> f.response.value,
                                     version_id |-> f.response.version_id,
                                     timestamp |-> f.tstore]

\* an entry exactly cache_ttl old is replaced by a different value, stored later
C2_Witness ==
    LET f == gs[Main]
    IN /\ f.pc = "ret"
       /\ f.use_cache
       /\ MainKey \in DOMAIN f.pre
       /\ cache_ttl > 0
       /\ f.tcheck - MainPre.timestamp = cache_ttl
       /\ f.calls = 1
       /\ f.value # MainPre.value
       /\ cache[MainKey].timestamp > MainPre.timestamp

\* C8: when get_secret ends because get_secret_value raised, whatever the error
\* code, the cache is what it was on entry: no entry added, removed or changed.
C8_FailureLeavesCacheAlone ==
    LET f == gs[Main]
    IN (f.pc = "raise" /\ f.e # NoExc) => cache = f.pre

\* get_secret failed to refresh a stale entry, which is still cached
C8_Witness ==
    LET f == gs[Main]
    IN /\ f.pc = "raise"
       /\ f.e.Code = "AccessDeniedException"
       /\ f.tcheck >= 0
       /\ MainKey \in DOMAIN cache
       /\ Cardinality(DOMAIN cache) = 2

\* the message, lower-cased, contains "pending"
SaysPending(message) == Contains(Lower(message), MsgPending)

\* the message, lower-cased, contains "pending" or "rotation"
SaysPendingOrRotation(message) ==
    SaysPending(message) \/ Contains(Lower(message), Lower(MsgRotation))

\* the exception kinds of C9 for a ClientError e, given what counts as the indicator
MappedKind(e, indicated) ==
    CASE e.Code = "ResourceNotFoundException" -> "SecretNotFoundError"
      [] e.Code = "InvalidRequestException" ->
           IF indicated THEN "SecretRotationInProgressError" ELSE "ClientError"
      [] e.Code = "AccessDeniedException" -> "SecretAccessDeniedError"
      [] e.Code = "DecryptionFailure" -> "SecretDecryptionError"
      [] OTHER -> "ClientError"

\* C9 as stated: the indicator is a mention of pending or of rotation
C9_Original ==
    LET f == gs[Main]
    IN f.e # NoExc =>
          /\ f.pc = "raise"
          /\ f.exc.type = MappedKind(f.e, SaysPendingOrRotation(f.e.Message))
          /\ f.exc.type = "ClientError" => f.exc = f.e

\* C9 (amended): get_secret raises exactly the mapped kind, where an
\* InvalidRequestException maps to RotationInProgress when its message contains
\* "pending" in any letter case and is passed through otherwise; every other code
\* maps as stated, no error is swallowed, an unmapped error is the original one.
C9_ErrorMapping ==
    LET f == gs[Main]
    IN f.e # NoExc =>
          /\ f.pc = "raise"
          /\ f.exc.type = MappedKind(f.e, SaysPending(f.e.Message))
          /\ f.exc.type = "ClientError" => f.exc = f.e
          /\ f.exc.type = "SecretRotationInProgressError" =>
                f.e.Code = "InvalidRequestException"

\* an InvalidRequestException naming AWSPENDING in capitals is a rotation in progress
C9_Witness ==
    LET f == gs[Main]
    IN /\ f.pc = "raise"
       /\ f.e.Code = "InvalidRequestException"
       /\ f.e.Message = AWSPENDING
       /\ f.exc.type = "SecretRotationInProgressError"

(***************************************************************************)
(* Properties of SecretsClient.get_both_versions, under Spec.              *)
(***************************************************************************)
\* the AWSPENDING fetch of the snapshot returned
PendingFetchSucceeded == gb.probed /\ gb.probe = NoExc

\* C3 as stated: is_rotating is true iff the AWSPENDING fetch succeeded, and
\* false iff it failed with SecretNotFoundError
C3_Original ==
    gb.pc = "ret" =>
       /\ gb.result.is_rotating <=> PendingFetchSucceeded
       /\ ~gb.result.is_rotating <=> gb.probe.type = "SecretNotFoundError"

\* C3 (amended): in every snapshot get_both_versions returns, is_rotating is true
\* iff the AWSPENDING fetch succeeded, and false iff that fetch failed with
\* SecretNotFoundError or with a ClientError that get_secret passed through.
C3_IsRotatingIffPendingFetched ==
    gb.pc = "ret" =>
       /\ gb.probed
       /\ gb.result.is_rotating <=> PendingFetchSucceeded
       /\ ~gb.result.is_rotating <=>
             gb.probe.type \in {"SecretNotFoundError", "ClientError"}
       /\ gb.result.is_rotating => gb.result.pending = cache[CacheKey(gb.secret_id, AWSPENDING)].value

\* a snapshot that reports no rotation because the probe was throttled
C3_Witness ==
    /\ gb.pc = "ret"
    /\ ~gb.result.is_rotating
    /\ gb.probe.type = "ClientError"
    /\ gb.probe.Code = "ThrottlingException"

\* C10: a failure of the AWSPENDING probe is swallowed (snapshot returned with
\* pending None and is_rotating false) only when it is SecretNotFoundError or a
\* ClientError passed through by get_secret; SecretAccessDeniedError,
\* SecretDecryptionError and SecretRotationInProgressError leave
\* get_both_versions unchanged.
C10_ProbeSwallowsOnlyNotFoundAndClientError ==
    /\ (gb.pc = "ret" /\ gb.probe # NoExc) =>
          /\ gb.probe.type \in {"SecretNotFoundError", "ClientError"}
          /\ gb.result.pending = PyNone
          /\ ~gb.result.is_rotating
    /\ (gb.probed /\ gb.probe.type \in {"SecretAccessDeniedError", "SecretDecryptionError",
                                       "SecretRotationInProgressError"}) =>
          /\ gb.pc = "raise"
          /\ gb.exc = gb.probe

\* the probe met a rotation in progress, which get_both_versions raised
C10_Witness ==
    /\ gb.pc = "raise"
    /\ gb.probed
    /\ gb.probe.type = "SecretRotationInProgressError"
    /\ gb.exc = gb.probe

(***************************************************************************)
(* Properties of DatabaseConnectionWithRotation, under SpecDb.             *)
(***************************************************************************)
\* the _try_connect calls of the connect() in progress, by version label
TriedCurrent == {i \in 1..Len(cn.tried) : cn.tried[i][1] = "CURRENT"}
TriedPending == {i \in 1..Len(cn.tried) : cn.tried[i][1] = "PENDING"}
CurrentFailed == \E i \in TriedCurrent : ~cn.tried[i][2]
PendingFailed == \E i \in TriedPending : ~cn.tried[i][2]

\* connecting with these credentials succeeds: they are a dict, so that
\* credentials.get does not raise
WouldConnect(credentials) == credentials.type = "dict"

\* C4: when connect() ends and CURRENT failed, a rotation is active and PENDING
\* connects, it returned True having used the PENDING credentials; when both
\* attempts failed it returned False.
C4_Original ==
    cn.pc = "ret" =>
       /\ (CurrentFailed /\ gb.result.is_rotating /\ WouldConnect(gb.result.pending)) =>
             /\ cn.ret
             /\ cn.tried[Len(cn.tried)] = <<"PENDING", TRUE>>
             /\ current_credentials = gb.result.pending
       /\ (CurrentFailed /\ PendingFailed) => ~cn.ret

\* C5: in a connect() whose snapshot has is_rotating false, _try_connect is
\* never called with the PENDING credentials, and a failed CURRENT attempt is
\* followed by the return of False.
C5_NoPendingAttemptUnlessRotating ==
    (cn.pc \in {"l201", "l205", "ret"} /\ ~gb.result.is_rotating) =>
       /\ TriedPending = {}
       /\ (cn.pc = "ret" /\ CurrentFailed) =>
             /\ ~cn.ret
             /\ cn.tried = << <<"CURRENT", FALSE>> >>

\* connect() gave up after the CURRENT credentials alone, no rotation in flight
C5_Witness ==
    /\ cn.pc = "ret"
    /\ ~gb.result.is_rotating
    /\ cn.tried = << <<"CURRENT", FALSE>> >>
    /\ ~cn.ret

\* the failures of a query that are of the authentication class: the message,
\* lower-cased, contains "authentication" or "password"
AuthClassErrors ==
    {e \in QueryErrors :
        \/ Contains(Lower(e.Message), <<"a", "u", "t", "h", "e", "n", "t", "i", "c", "a", "t", "i", "o", "n">>)
        \/ Contains(Lower(e.Message), <<"p", "a", "s", "s", "w", "o", "r", "d">>)}

\* e is an authentication-class failure
AuthClass(e) == e \in AuthClassErrors

\* the attempts of the execute_with_retry in progress that failed that way
AuthFailures == {i \in 1..Len(ex.raised) : AuthClass(ex.raised[i])}

\* C6 as stated: at most max_retries + 1 attempts, and as many invalidate_cache
\* calls as authentication failures that were followed by a retry
C6_Original ==
    (Ended(ex) /\ ex.max_retries >= 0) =>
       /\ ex.attempts <= ex.max_retries + 1
       /\ ex.invalidations = ex.retries

\* C6 (amended): for max_retries >= 0 execute_with_retry makes at most
\* max_retries + 1 attempts, none after the last has failed, and when it ends it
\* has called invalidate_cache once for every attempt that failed with an
\* authentication-class error, whether or not a retry followed.
C6_AttemptsBoundedInvalidationPerAuthFailure ==
    ex.max_retries >= 0 =>
       /\ ex.attempts <= ex.max_retries + 1
       /\ ex.pc = "l241" => ex.attempts <= ex.max_retries
       /\ ex.retries <= ex.invalidations
       /\ Ended(ex) => ex.invalidations = Cardinality(AuthFailures)

\* two attempts, both failed with an authentication error: two invalidations, one retry
C6_Witness ==
    /\ Ended(ex)
    /\ ex.max_retries = 1
    /\ ex.attempts = 2
    /\ Cardinality(AuthFailures) = 2
    /\ ex.invalidations = 2
    /\ ex.retries = 1

\* C7: when each of the max_retries + 1 attempts failed with an
\* authentication-class error, execute_with_retry raises the error of line 257
\* ("Max retries exceeded"), not the failure of the last attempt.
C7_Original ==
    (/\ Ended(ex)
     /\ ex.max_retries >= 0
     /\ Len(ex.raised) = ex.max_retries + 1
     /\ Cardinality(AuthFailures) = ex.max_retries + 1)
    => /\ ex.pc = "raise"
       /\ ex.exc.Message = MsgMaxRetries
       /\ ex.exc # ex.raised[Len(ex.raised)]

\* C11: when the AWSCURRENT fetch of get_both_versions fails, the failure leaves
\* get_both_versions as it is: no snapshot is returned, no AWSPENDING fetch is
\* started, and the connect() that asked for the snapshot raises the same
\* failure without having called _try_connect.
C11_CurrentFailurePropagates ==
    gb.first # NoExc =>
       /\ gb.pc = "raise"
       /\ gb.exc = gb.first
       /\ ~gb.probed
       /\ gb.remote = <<1>>
       /\ gs[Main].pc = "idle"
       /\ cn.pc \in {"l198", "raise"}
       /\ cn.tried = << >>
       /\ cn.pc = "raise" => cn.exc = gb.first

\* connect() raised the SecretNotFoundError of the AWSCURRENT fetch
C11_Witness ==
    /\ cn.pc = "raise"
    /\ gb.first.type = "SecretNotFoundError"
    /\ cn.exc = gb.first
    /\ cn.tried = << >>

\* the last exception an attempt of execute_with_retry raised
LastRaised == ex.raised[Len(ex.raised)]

\* C13: once an attempt has failed with an error whose message contains neither
\* 'authentication' nor 'password', execute_with_retry raises that error: no
\* attempt, no invalidate_cache and no connect() follows it.
C13_OtherFailureSurfacesAtOnce ==
    (Len(ex.raised) > 0 /\ ~AuthClass(LastRaised)) =>
       /\ ex.pc \in {"l248", "raise"}
       /\ ex.pc = "raise" => ex.exc = LastRaised
       /\ ex.attempts = Len(ex.raised)
       /\ ex.log[Len(ex.log)] = "attempt"
       /\ ex.invalidations = Len(ex.raised) - 1
       /\ ex.retries = Len(ex.raised) - 1
       /\ iv[Main].pc = "idle"
       /\ cn.pc = "idle"
       /\ gb.pc = "idle"

\* the second attempt timed out after a retried authentication failure
C13_Witness ==
    /\ ex.pc = "raise"
    /\ Len(ex.raised) = 2
    /\ AuthClass(ex.raised[1])
    /\ LastRaised.Message = MsgTimeout
    /\ ex.exc = LastRaised

\* C15: connect() tries CURRENT first and each stage at most once, and when the
\* CURRENT attempt succeeds it returns True with the CURRENT credentials in use
\* and no PENDING attempt, whether or not a rotation is in flight.
C15_CurrentFirstAndWinning ==
    /\ cn.tried \in { << >>, << <<"CURRENT", TRUE>> >>, << <<"CURRENT", FALSE>> >>,
                      << <<"CURRENT", FALSE>>, <<"PENDING", TRUE>> >>,
                      << <<"CURRENT", FALSE>>, <<"PENDING", FALSE>> >> }
    /\ (cn.tried # << >> /\ cn.tried[1][2]) =>
          /\ cn.pc = "ret"
          /\ cn.ret
          /\ current_credentials = gb.result.current
    /\ cn.pc \in {"l198", "l201"} => cn.tried = << >>

\* CURRENT connected while a PENDING version was there to try
C15_Witness ==
    /\ cn.pc = "ret"
    /\ cn.ret
    /\ cn.tried = << <<"CURRENT", TRUE>> >>
    /\ gb.result.is_rotating
    /\ WouldConnect(gb.result.pending)
    /\ gb.result.pending # gb.result.current

\* the attempts among the first i events of execute_with_retry
AttemptsUpTo(i) == Cardinality({j \in 1..i : ex.log[j] = "attempt"})

\* C16: in execute_with_retry, an attempt that fails with an authentication-class
\* error while attempts remain is followed by invalidate_cache, then by a
\* connect() run to its end, then by the next attempt; an attempt other than the
\* first comes right after these two steps, and connect() never starts before
\* invalidate_cache has returned.
C16_InvalidateThenReconnectThenRetry ==
    /\ \A i \in 1..Len(ex.log) :
          /\ (ex.log[i] = "attempt" /\ i > 1) =>
                /\ i >= 4
                /\ ex.log[i-1] = "connected"
                /\ ex.log[i-2] = "invalidated"
                /\ ex.log[i-3] = "attempt"
          /\ ex.log[i] = "invalidated" =>
                /\ i > 1
                /\ ex.log[i-1] = "attempt"
                /\ AuthClass(ex.raised[AttemptsUpTo(i)])
          /\ ex.log[i] \in {"connected", "connect raised"} =>
                /\ i > 1
                /\ ex.log[i-1] = "invalidated"
    /\ ex.pc = "l250" => cn.pc = "idle" /\ gb.pc = "idle"
    /\ ex.pc = "l253" => iv[Main].pc = "idle"
    /\ (Ended(ex) /\ Len(ex.log) > 0 /\ ex.log[Len(ex.log)] = "invalidated") =>
          ex.attempts = ex.max_retries + 1

\* an authentication failure, the invalidation, the reconnection, the retry
C16_Witness ==
    /\ Ended(ex)
    /\ ex.log = <<"attempt", "invalidated", "connected", "attempt">>
    /\ AuthClass(ex.raised[1])

\* C17: a get_secret with use_cache=False never looks at the cache: it calls
\* get_secret_value once, and when that succeeds the entry of its key is the
\* value fetched, whatever was there; a get_secret of the same key with
\* use_cache=True that follows within cache_ttl returns that value.
C17_NoCacheFetchesAndOverwrites ==
    LET f == gs[Main]
    IN /\ (f.pc # "idle" /\ ~f.use_cache) =>
             /\ f.pc \in {"l64", "l71", "l85", "ret", "raise"}
             /\ f.tcheck = -1
             /\ f.pc \in {"l85", "ret", "raise"} => f.calls = 1
             /\ f.pc = "ret" =>
                   /\ f.value = f.response.value
                   /\ MainKey \in DOMAIN cache
                   /\ cache[MainKey] = [value |-> f.response.value,
                                        version_id |-> f.response.version_id,
                                        timestamp |-> f.tstore]
       /\ f.forced # Unset =>
             /\ MainKey \in DOMAIN f.pre
             /\ MainPre.value = f.forced
             /\ (f.use_cache /\ f.tcheck >= 0 /\ f.tcheck - MainPre.timestamp < cache_ttl) =>
                   /\ f.pc = "ret"
                   /\ f.calls = 0
                   /\ f.value = f.forced

\* a fresh entry was there, and the forced fetch replaced it by another value
C17_Witness ==
    LET f == gs[Main]
    IN /\ f.pc = "ret"
       /\ ~f.use_cache
       /\ MainKey \in DOMAIN f.pre
       /\ f.tstore - MainPre.timestamp < cache_ttl
       /\ MainPre.value # f.value
       /\ cache[MainKey].value = f.value

\* C18: a get_secret that finds no entry under its key calls get_secret_value,
\* and invalidate_cache(secret_id) leaves no entry of secret_id; so in the
\* connect() that execute_with_retry runs after an authentication failure every
\* fetch of get_both_versions is a get_secret_value call made after the failure.
C18_ReconnectUsesFreshlyFetched ==
    /\ \A s \in Stages :
          (iv[Main].pc = "ret" /\ iv[Main].secret_id # Nothing) =>
             CacheKey(iv[Main].secret_id, s) \notin DOMAIN cache
    /\ (gs[Main].pc # "idle" /\ MainKey \notin DOMAIN gs[Main].pre) =>
          /\ gs[Main].tcheck = -1
          /\ Ended(gs[Main]) => gs[Main].calls = 1
    /\ ex.pc = "l253" =>
          /\ \A i \in 1..Len(gb.remote) : gb.remote[i] = 1
          /\ gs[Main].pc # "idle" => MainKey \notin DOMAIN gs[Main].pre
          /\ cn.pc \in {"l201", "l205", "ret"} => Len(gb.remote) = 2

\* the cache was warm at the failure, and the reconnection fetched both stages
C18_Witness ==
    /\ ex.pc = "l253"
    /\ ex.warm
    /\ cn.pc = "ret"
    /\ cn.ret
    /\ gb.remote = <<1, 1>>

\* C20: a snapshot returned by get_both_versions has a current value other than
\* None, and is_rotating true exactly when its pending value is other than None.
C20_Original ==
    gb.pc = "ret" =>
       /\ gb.result.current # PyNone
       /\ gb.result.is_rotating <=> (gb.result.pending # PyNone)

\* C12: when invalidate_cache(p) returns, the cache holds the entries it held
\* on entry whose secret identifier does not start with p, each as it was, and
\* no other: both stages of every identifier that starts with p are gone; with
\* no p (None or "") the cache is empty.
C12_InvalidateRemovesMatchingIdentifiers ==
    iv[Main].pc = "ret" =>
       LET p == iv[Main].secret_id
           pre == iv[Main].pre
       IN /\ DOMAIN cache \subseteq DOMAIN pre
          /\ \A id \in env.ids, s \in Stages :
                LET k == CacheKey(id, s)
                IN IF StartsWith(id, p)
                   THEN k \notin DOMAIN cache
                   ELSE k \in DOMAIN pre => (k \in DOMAIN cache /\ cache[k] = pre[k])
          /\ p = Nothing => DOMAIN cache = {}

\* both stages of both secrets were cached; those of the longer identifier went
C12_Witness ==
    /\ iv[Main].pc = "ret"
    /\ iv[Main].secret_id = Db2
    /\ DOMAIN iv[Main].pre = {CacheKey(id, s) : id \in {Db, Db2}, s \in Stages}
    /\ DOMAIN cache = {CacheKey(Db, s) : s \in Stages}

\* C14: with several threads calling get_secret and invalidate_cache on one
\* client, no call ends with an error from outside the store error taxonomy
\* (no KeyError from line 65 or line 158), and every cache key holds one
\* complete record.
C14_Original ==
    /\ \A t \in Threads :
          /\ gs[t].exc.type # "KeyError"
          /\ iv[t].pc # "raise"
    /\ \A k \in DOMAIN cache : DOMAIN cache[k] = {"value", "version_id", "timestamp"}

\* C19: once an invalidate_cache(secret_id) has returned, the cache holds no
\* record of secret_id that was fetched before that invalidate_cache started.
C19_Original ==
    \A t \in Threads : ~(gs[t].pc = "ret" /\ gs[t].live /\ gs[t].done)

====
